---- MODULE Spec2Model ----
(***************************************************************************)
(* Earthquake Explorer: the App component (snapshot, loading flag, filter  *)
(* configuration, periodic refresh), the Dashboard (summary statistics,    *)
(* recent-events list, per-event detail panel) and the EarthquakeMap       *)
(* marker effect.                                                          *)
(*                                                                         *)
(* Conventions.                                                            *)
(*  - Times are epoch SECONDS (the source uses milliseconds; every         *)
(*    duration of the source is a whole number of seconds, and seconds     *)
(*    keep 30 days within TLC's integers).                                 *)
(*  - Event magnitudes are in TENTHS (45 is magnitude 4.5).                *)
(*  - A JS object is a TLA+ record whose DOMAIN is the set of keys that    *)
(*    are present; reading a missing key gives undefined.                  *)
(*  - JSON null for a number is Null (<<>>), a present number n is         *)
(*    Some(n) (<<n>>).                                                     *)
(*  - React re-renders after every state change: every action applies      *)
(*    Render (the Dashboard body sorts the shared array in place) and      *)
(*    MarkerEffect (the EarthquakeMap marker effect) to its result.        *)
(*  - setFilters and the effect it triggers (cleanup, fetch, new           *)
(*    interval) are one step.                                              *)
(*  - Spec is the running application; the interval may fire at any        *)
(*    moment and the clock stands still.  SpecQuery applies the query      *)
(*    builder to a range of filter objects and instants.  SpecViews        *)
(*    delivers a range of feature lists and shows the tabs over them.      *)
(*    SpecFair is App alone (effect, filter changes, interval, fetches,    *)
(*    tabs) where a fetch in flight does not stay in flight forever.       *)
(*    SpecTimers is App alone with its unmount.                            *)
(***************************************************************************)
EXTENDS Integers, Sequences, FiniteSets, Bags, TLC

\* ------------------------------------------------------------------ bounds
\* snapshot fetches in flight at once
MaxInflight == 2

\* detail fetches in flight at once
MaxDetailInflight == 2

\* events of a short feature list of the derived views' feed
MaxViewEvents == 3

\* events of a long feature list: more than 24, each in an hour of its own
MaxTimelineEvents == 26

\* --------------------------------------------------------------- JS values
Null == <<>>
Some(x) == <<x>>
Val(x) == x[1]

\* o.k is present (not undefined)
Has(o, k) == k \in DOMAIN o

\* JS truthiness of the numeric field o.k: undefined and 0 are falsy
TruthyField(o, k) == Has(o, k) /\ o[k] # 0

\* JS truthiness of a nullable number: null and 0 are falsy
Truthy(x) == x # Null /\ Val(x) # 0

\* ------------------------------------------------------------------- time
Hour == 60 * 60
Day == 24 * Hour

\* the clock value at page load
Now0 == 40 * Day

\* Date.prototype.toISOString: the UTC fields of the instant.  The calendar
\* date is kept as the day number since the epoch.
toISOString(t) ==
    [day |-> t \div Day,
     hh |-> (t % Day) \div Hour,
     mm |-> (t % Hour) \div 60,
     ss |-> t % 60]

\* ------------------------------------------------------------ query builder
\* the switch with a default arm that takes the one-hour window
StartTimeHourDefault(filterOptions, now) ==
    IF ~Has(filterOptions, "timeRange") THEN now - 60 * 60
    ELSE CASE filterOptions.timeRange = "hour" -> now - 60 * 60
           [] filterOptions.timeRange = "day" -> now - 24 * 60 * 60
           [] filterOptions.timeRange = "week" -> now - 7 * 24 * 60 * 60
           [] filterOptions.timeRange = "month" -> now - 30 * 24 * 60 * 60
           [] OTHER -> now - 60 * 60

\* the switch on filterOptions.timeRange
StartTime(filterOptions, now) ==
    IF ~Has(filterOptions, "timeRange") THEN now - 24 * 60 * 60
    ELSE CASE filterOptions.timeRange = "hour" -> now - 60 * 60
           [] filterOptions.timeRange = "day" -> now - 24 * 60 * 60
           [] filterOptions.timeRange = "week" -> now - 7 * 24 * 60 * 60
           [] filterOptions.timeRange = "month" -> now - 30 * 24 * 60 * 60
           [] OTHER -> now - 24 * 60 * 60

\* the optional parameters: URL parameter name -> filterOptions key
OptionalParams ==
    [minmagnitude |-> "minMagnitude", maxmagnitude |-> "maxMagnitude",
     mindepth |-> "minDepth", maxdepth |-> "maxDepth",
     latitude |-> "latitude", longitude |-> "longitude",
     maxradiuskm |-> "radius"]

\* truthiness test that guards query.append of an optional parameter
ParamPresent(filterOptions, key) == TruthyField(filterOptions, key)

\* The URLSearchParams of the built URL, as a record from parameter name to
\* value (no name is appended twice).
buildUSGSQuery(filterOptions, now) ==
    LET required ==
            [format |-> "geojson",
             limit |-> IF TruthyField(filterOptions, "limit")
                       THEN filterOptions.limit ELSE 100,
             starttime |-> toISOString(StartTime(filterOptions, now)),
             endtime |-> toISOString(now),
             orderby |-> "time"]
        present == {p \in DOMAIN OptionalParams :
                       ParamPresent(filterOptions, OptionalParams[p])}
    IN  [p \in DOMAIN required \cup present |->
            IF p \in DOMAIN required THEN required[p]
            ELSE filterOptions[OptionalParams[p]]]

\* ----------------------------------------------------------------- events
\* a feature of the feed: coordinates are <<longitude, latitude, depth>>
Feature(id, mag, time, lon, lat, depth) ==
    [id |-> id,
     geometry |-> [coordinates |-> <<lon, lat, depth>>],
     properties |-> [mag |-> mag, time |-> time]]

\* the features the modelled feed can return
Features ==
    {Feature("a", Null, Now0 - 2 * Hour, 20, 10, Some(10)),
     Feature("b", Some(45), Now0 - Hour, 30, 15, Null)}

RECURSIVE SeqsUpTo(_, _)
\* the sequences over S of length at most n
SeqsUpTo(S, n) ==
    IF n = 0 THEN {<<>>}
    ELSE LET shorter == SeqsUpTo(S, n - 1)
         IN  shorter \cup {Append(s, x) : s \in shorter, x \in S}

Range(s) == {s[i] : i \in 1..Len(s)}

NoDup(s) == Cardinality(Range(s)) = Len(s)

\* the feature lists a response body can carry: ids are unique in a list
FeatureLists ==
    {s \in SeqsUpTo(Features, Cardinality(Features)) : NoDup(s)}

\* What the awaits of fetchEarthquakeData can deliver: an await rejects
\* (transport error, body that is not JSON), the status is not ok, or a
\* parsed body with or without a features field.
Responses ==
    {[outcome |-> o, data |-> Null] : o \in {"reject", "status"}}
    \cup {[outcome |-> "ok", data |-> [type |-> "FeatureCollection"]]}
    \cup {[outcome |-> "ok",
           data |-> [type |-> "FeatureCollection", features |-> fs]] :
          fs \in FeatureLists}

\* ------------------------------------------------------------- Dashboard
\* the array after inserting e into a list already sorted by descending time,
\* behind every element that is not older (Array.prototype.sort is stable)
InsertByTimeDesc(sorted, e) ==
    LET k == Cardinality({i \in 1..Len(sorted) :
                 sorted[i].properties.time >= e.properties.time})
    IN  SubSeq(sorted, 1, k) \o <<e>> \o SubSeq(sorted, k + 1, Len(sorted))

RECURSIVE SortByTimeDesc(_)
\* earthquakeData.sort((a, b) => b.properties.time - a.properties.time)
SortByTimeDesc(s) ==
    IF s = <<>> THEN <<>>
    ELSE InsertByTimeDesc(SortByTimeDesc(SubSeq(s, 1, Len(s) - 1)), s[Len(s)])

\* the state of the shared array after the Dashboard body has run on it:
\* sort works in place and returns the same array
DashboardSort(data) == SortByTimeDesc(data)

\* recentEarthquakes: the sorted array's first 10
recentEarthquakes(data) ==
    LET sorted == DashboardSort(data)
    IN  SubSeq(sorted, 1, IF Len(sorted) < 10 THEN Len(sorted) ELSE 10)

RECURSIVE SumSeq(_)
SumSeq(s) == IF s = <<>> THEN 0 ELSE s[1] + SumSeq(Tail(s))

RECURSIVE MaxSeq(_)
MaxSeq(s) ==
    IF Len(s) = 1 THEN s[1]
    ELSE LET m == MaxSeq(Tail(s)) IN IF s[1] >= m THEN s[1] ELSE m

\* a JS number that is finite (in tenths), NaN or -Infinity
Num(tenths) == [kind |-> "number", tenths |-> tenths]
NaN == [kind |-> "NaN", tenths |-> 0]
NegInfinity == [kind |-> "-Infinity", tenths |-> 0]

\* earthquakeData.map(eq => eq.properties.mag).filter(mag => mag != null)
Magnitudes(data) ==
    LET nonNull == SelectSeq(data, LAMBDA eq : eq.properties.mag # Null)
    IN  [i \in 1..Len(nonNull) |-> Val(nonNull[i].properties.mag)]

\* Math.max(...magnitudes): -Infinity for no arguments
MathMax(magnitudes) ==
    IF magnitudes = <<>> THEN NegInfinity ELSE Num(MaxSeq(magnitudes))

\* magnitudes.reduce((sum, mag) => sum + mag, 0) / magnitudes.length,
\* rounded to one decimal by toFixed(1); 0 / 0 is NaN
Average(magnitudes) ==
    IF magnitudes = <<>> THEN NaN
    ELSE Num((2 * SumSeq(magnitudes) + Len(magnitudes))
                \div (2 * Len(magnitudes)))

\* the last-24-hours filter taken with <=
getStatsInclusive(data, now) ==
    IF Len(data) = 0
    THEN [total |-> 0, largest |-> Num(0), averageMagnitude |-> Num(0),
          last24Hours |-> 0]
    ELSE [total |-> Len(data),
          largest |-> MathMax(Magnitudes(data)),
          averageMagnitude |-> Average(Magnitudes(data)),
          last24Hours |-> Len(SelectSeq(data,
              LAMBDA eq : now - eq.properties.time <= 24 * 60 * 60))]

\* getStats of the Dashboard
getStats(data, now) ==
    IF Len(data) = 0
    THEN [total |-> 0, largest |-> Num(0), averageMagnitude |-> Num(0),
          last24Hours |-> 0]
    ELSE [total |-> Len(data),
          largest |-> MathMax(Magnitudes(data)),
          averageMagnitude |-> Average(Magnitudes(data)),
          last24Hours |-> Len(SelectSeq(data,
              LAMBDA eq : now - eq.properties.time < 24 * 60 * 60))]

\* ------------------------------------------------------------ Statistics
\* the light band taken as the magnitudes above 4, the minor band as the
\* magnitudes up to 4
getMagnitudeStatsBoundaryLow(data) ==
    IF Len(data) = 0 THEN <<>>
    ELSE LET magnitudes == Magnitudes(data)
         IN  [minor |-> Len(SelectSeq(magnitudes, LAMBDA m : m <= 40)),
              light |-> Len(SelectSeq(magnitudes,
                                LAMBDA m : m > 40 /\ m < 50)),
              moderate |-> Len(SelectSeq(magnitudes,
                                LAMBDA m : m >= 50 /\ m < 60)),
              strong |-> Len(SelectSeq(magnitudes,
                                LAMBDA m : m >= 60 /\ m < 70)),
              major |-> Len(SelectSeq(magnitudes,
                                LAMBDA m : m >= 70))]

\* getMagnitudeStats of the Statistics tab: {} for the empty snapshot
getMagnitudeStats(data) ==
    IF Len(data) = 0 THEN <<>>
    ELSE LET magnitudes == Magnitudes(data)
         IN  [minor |-> Len(SelectSeq(magnitudes, LAMBDA m : m < 40)),
              light |-> Len(SelectSeq(magnitudes,
                                LAMBDA m : m >= 40 /\ m < 50)),
              moderate |-> Len(SelectSeq(magnitudes,
                                LAMBDA m : m >= 50 /\ m < 60)),
              strong |-> Len(SelectSeq(magnitudes,
                                LAMBDA m : m >= 60 /\ m < 70)),
              major |-> Len(SelectSeq(magnitudes,
                                LAMBDA m : m >= 70))]

\* earthquakeData.map(eq => eq.geometry.coordinates[2])
\*               .filter(depth => depth != null)
Depths(data) ==
    LET nonNull == SelectSeq(data,
                       LAMBDA eq : eq.geometry.coordinates[3] # Null)
    IN  [i \in 1..Len(nonNull) |-> Val(nonNull[i].geometry.coordinates[3])]

\* the intermediate band taken as the depths above 70, the shallow band as
\* the depths up to 70
getDepthDistributionBoundaryLow(data) ==
    IF Len(data) = 0 THEN <<>>
    ELSE LET depths == Depths(data)
         IN  [shallow |-> Len(SelectSeq(depths, LAMBDA d : d <= 70)),
              intermediate |-> Len(SelectSeq(depths,
                                LAMBDA d : d > 70 /\ d < 300)),
              deep |-> Len(SelectSeq(depths,
                                LAMBDA d : d >= 300))]

\* getDepthDistribution of the Statistics tab: {} for the empty snapshot
getDepthDistribution(data) ==
    IF Len(data) = 0 THEN <<>>
    ELSE LET depths == Depths(data)
         IN  [shallow |-> Len(SelectSeq(depths, LAMBDA d : d < 70)),
              intermediate |-> Len(SelectSeq(depths,
                                LAMBDA d : d >= 70 /\ d < 300)),
              deep |-> Len(SelectSeq(depths,
                                LAMBDA d : d >= 300))]

\* {stats.band || 0}: the count the Statistics tab shows for a band
OrZero(stats, band) == IF TruthyField(stats, band) THEN stats[band] ELSE 0

\* d3.bin().domain([x0, x1]).thresholds(count)(values), for a domain that
\* count steps divide evenly: the thresholds are the ticks strictly inside
\* the domain, a value goes to the bin numbered by the thresholds that are
\* not above it, and a value outside the domain goes to no bin.  A bin is
\* its bounds and the values put in it, in the order of values.
d3Bin(x0, x1, count, values) ==
    LET step == (x1 - x0) \div count
        thresholds == [k \in 1..count - 1 |-> x0 + k * step]
        bisect(x) == Cardinality({k \in 1..count - 1 : thresholds[k] <= x})
    IN  [b \in 1..count |->
            [x0 |-> IF b > 1 THEN thresholds[b - 1] ELSE x0,
             x1 |-> IF b < count THEN thresholds[b] ELSE x1,
             values |-> SelectSeq(values,
                 LAMBDA x : x0 <= x /\ x <= x1 /\ bisect(x) = b - 1)]]

\* the bins made with thresholds(10)
MagnitudeBinsTenThresholds(data) == d3Bin(0, 100, 10, Magnitudes(data))

\* bins of the chart effect: d3.bin().domain([0, 10]).thresholds(20) over
\* the magnitudes that are not null
MagnitudeBins(data) == d3Bin(0, 100, 20, Magnitudes(data))

\* the chart effect of Statistics draws the histogram only when the tab is
\* not loading and the snapshot is not empty
ChartDrawn(data, isLoading, tab) ==
    tab = "statistics" /\ ~isLoading /\ Len(data) # 0

\* -------------------------------------------------------------- Timeline
\* Math.floor((now - eq.properties.time) / (1000 * 60 * 60))
HoursAgo(eq, now) == (now - eq.properties.time) \div (60 * 60)

\* hourBuckets after the forEach: hour -> number of events of that hour
HourBuckets(data, now) ==
    [hours \in {HoursAgo(data[i], now) : i \in 1..Len(data)} |->
        Cardinality({i \in 1..Len(data) : HoursAgo(data[i], now) = hours})]

RECURSIVE Ascending(_)
\* the numbers of S in ascending order
Ascending(S) ==
    IF S = {} THEN <<>>
    ELSE LET least == CHOOSE x \in S : \A y \in S : x <= y
         IN  <<least>> \o Ascending(S \ {least})

RECURSIVE FirstOccurrences(_)
\* s without the later occurrences of its elements
FirstOccurrences(s) ==
    IF s = <<>> THEN <<>>
    ELSE LET front == FirstOccurrences(SubSeq(s, 1, Len(s) - 1))
         IN  IF s[Len(s)] \in Range(front) THEN front
             ELSE Append(front, s[Len(s)])

\* Object.entries(hourBuckets).map(([hours, count]) =>
\*     ({ hours: parseInt(hours), count })): the keys that are array indices
\* come first, in ascending order, then the other keys (the negative hours)
\* in the order they were created
BucketEntries(data, now) ==
    LET buckets == HourBuckets(data, now)
        created == FirstOccurrences([i \in 1..Len(data) |->
                                        HoursAgo(data[i], now)])
        keys == Ascending({hours \in DOMAIN buckets : hours >= 0})
                   \o SelectSeq(created, LAMBDA hours : hours < 0)
    IN  [k \in 1..Len(keys) |-> [hours |-> keys[k], count |-> buckets[keys[k]]]]

\* the array after inserting e into a list already sorted by ascending hours,
\* behind every element that is not greater
InsertByHours(sorted, e) ==
    LET k == Cardinality({i \in 1..Len(sorted) : sorted[i].hours <= e.hours})
    IN  SubSeq(sorted, 1, k) \o <<e>> \o SubSeq(sorted, k + 1, Len(sorted))

RECURSIVE SortByHours(_)
\* .sort((a, b) => a.hours - b.hours)
SortByHours(s) ==
    IF s = <<>> THEN <<>>
    ELSE InsertByHours(SortByHours(SubSeq(s, 1, Len(s) - 1)), s[Len(s)])

\* the sorted buckets cut by slice(-24), which keeps the last 24
getTimeDistributionLast24(data, now) ==
    IF Len(data) = 0 THEN <<>>
    ELSE LET sorted == SortByHours(BucketEntries(data, now))
         IN  SubSeq(sorted, IF Len(sorted) < 24 THEN 1 ELSE Len(sorted) - 23,
                    Len(sorted))

\* getTimeDistribution of the Timeline tab
getTimeDistribution(data, now) ==
    IF Len(data) = 0 THEN <<>>
    ELSE LET sorted == SortByHours(BucketEntries(data, now))
         IN  SubSeq(sorted, 1, IF Len(sorted) < 24 THEN Len(sorted) ELSE 24)

\* ---------------------------------------------------------- EarthquakeMap
\* the guard of the marker loop: the event is skipped when it holds
MarkerSkipped(earthquake) ==
    LET longitude == earthquake.geometry.coordinates[1]
        latitude == earthquake.geometry.coordinates[2]
        magnitude == earthquake.properties.mag
    IN  ~Truthy(magnitude) \/ latitude = 0 \/ longitude = 0

\* the circle drawn for an event
Circle(earthquake) ==
    [latlng |-> <<earthquake.geometry.coordinates[2],
                  earthquake.geometry.coordinates[1]>>,
     radius |-> Val(earthquake.properties.mag) * 1000]

\* markersRef.current after the marker effect has run over earthquakes
DrawMarkers(earthquakes) ==
    LET drawn == SelectSeq(earthquakes, LAMBDA eq : ~MarkerSkipped(eq))
    IN  [i \in 1..Len(drawn) |-> Circle(drawn[i])]

\* ------------------------------------------------------------------ state
VARIABLES
    activeTab,        \* App: the tab shown
    earthquakeData,   \* App: the snapshot, one array shared with the tabs
    loading,          \* App: the loading flag
    filters,          \* App: the filter configuration
    timer,            \* the intervals that are set and not cleared, each
                      \* with the closure it calls; none before the effect
                      \* has run
    inflight,         \* the calls of fetchEarthquakeData suspended at an await
    response,         \* the response last delivered to fetchEarthquakeData
    snapshotFilters,  \* the filters of the call that last set the snapshot
    now,              \* the clock, read by new Date() and Date.now()
    markers,          \* EarthquakeMap: markersRef.current
    selectedEvent,    \* Dashboard: id of the selected event
    eventDetails,     \* Dashboard: the detail feature shown
    loadingDetails,   \* Dashboard: the detail loading flag
    detailInflight,   \* the calls of handleEventClick suspended at the await
    detailResponse    \* the response last delivered to handleEventClick

vars == <<activeTab, earthquakeData, loading, filters, timer, inflight,
          response, snapshotFilters, now, markers, selectedEvent,
          eventDetails, loadingDetails, detailInflight, detailResponse>>

dashboardVars == <<selectedEvent, eventDetails, loadingDetails,
                   detailInflight, detailResponse>>

Tabs == {"dashboard", "map", "timeline", "statistics"}

\* useState of App.filters
InitialFilters ==
    [timeRange |-> "day", minMagnitude |-> 1, maxMagnitude |-> 10,
     limit |-> 100]

\* the values the filter controls of the map tab are driven to: the Min
\* Magnitude input (min="0") is set to 0 or back to 1
FilterChoices == [minMagnitude |-> {0, 1}]

\* The suspended calls of an async function form a bag: they resume in any
\* order, and two of them can be alike.
NoCalls == EmptyBag

\* a call suspends at its await
Suspend(calls, call) == calls (+) SetToBag({call})

\* a suspended call resumes and runs to its end
Resume(calls, call) == calls (-) SetToBag({call})

\* The intervals that are set form a bag as well: nothing but clearInterval
\* removes one, and two of them can call closures that are alike.
NoTimers == EmptyBag

\* the interval that calls fetchEarthquakeData of the render whose filters
\* are closureFilters
Interval(closureFilters) == [filters |-> closureFilters]

\* setInterval(fetchEarthquakeData, 5 * 60 * 1000)
SetInterval(timers, interval) == timers (+) SetToBag({interval})

\* clearInterval(interval)
ClearInterval(timers, interval) == timers (-) SetToBag({interval})

\* renderContent: the array after the active tab's component body has run;
\* only the Dashboard (also the default case) touches it
Render(data, tab) ==
    IF tab \in {"map", "timeline", "statistics"} THEN data
    ELSE DashboardSort(data)

\* the marker effect of EarthquakeMap, deps [map, earthquakes, loading]; the
\* component and its markers exist only while the map tab is shown
MarkerEffect(old, earthquakes, isLoading, tab) ==
    IF tab # "map" THEN <<>>
    ELSE IF isLoading THEN old
    ELSE DrawMarkers(earthquakes)

\* data.features || []
FeaturesOrEmpty(data) ==
    IF Has(data, "features") THEN data.features ELSE <<>>

Init ==
    /\ activeTab = "dashboard"
    /\ earthquakeData = <<>>
    /\ loading = TRUE
    /\ filters = InitialFilters
    /\ timer = NoTimers
    /\ inflight = NoCalls
    /\ response = Null
    /\ snapshotFilters = Null
    /\ now = Now0
    /\ markers = <<>>
    /\ selectedEvent = Null
    /\ eventDetails = Null
    /\ loadingDetails = FALSE
    /\ detailInflight = NoCalls
    /\ detailResponse = Null

\* fetchEarthquakeData up to its first await, called by caller (the effect
\* or the interval) from a closure that captured closureFilters
FetchStart(caller, closureFilters) ==
    /\ loading' = TRUE
    /\ inflight' = Suspend(inflight,
                           [by |-> caller,
                            filters |-> closureFilters,
                            query |-> buildUSGSQuery(closureFilters, now)])
    /\ earthquakeData' = Render(earthquakeData, activeTab')
    /\ markers' = MarkerEffect(markers, earthquakeData', TRUE, activeTab')

\* the effect of App on mount: fetch, then start the interval
MountEffect ==
    /\ timer = NoTimers
    /\ UNCHANGED activeTab
    /\ FetchStart("effect", filters)
    /\ timer' = SetInterval(timer, Interval(filters))
    /\ UNCHANGED <<filters, response, snapshotFilters, now>>
    /\ UNCHANGED dashboardVars

\* an effect that does not depend on filters: the interval keeps calling
\* the closure of the first render
EffectClosureOfFirstRender(newFilters) == InitialFilters

\* the closure the interval created by the effect calls after setFilters
EffectClosure(newFilters) == newFilters

\* an effect that returns no cleanup: the interval it set stays set
EffectCleanupMissing(timers, interval) == timers

\* the cleanup the effect returned, () => clearInterval(interval): React
\* calls it before the effect runs again and when App unmounts; interval is
\* the one that run of the effect set
EffectCleanup(timers, interval) == ClearInterval(timers, interval)

\* an effect with no dependency on filters: setFilters re-renders, and
\* neither a fetch nor a new interval follows
UpdateFilterNoRefetch(key, value) ==
    /\ timer # NoTimers
    /\ activeTab = "map"
    /\ filters' = [filters EXCEPT ![key] = value]
    /\ earthquakeData' = Render(earthquakeData, activeTab)
    /\ markers' = MarkerEffect(markers, earthquakeData', loading, activeTab)
    /\ UNCHANGED <<activeTab, loading, inflight, timer, response,
                   snapshotFilters, now>>
    /\ UNCHANGED dashboardVars

\* updateFilter(key, value) from a control of the map tab; filters is a new
\* object, so the effect's cleanup clears the interval and the effect runs
\* again from the new render
UpdateFilter(key, value) ==
    /\ timer # NoTimers
    /\ activeTab = "map"
    /\ BagCardinality(inflight) < MaxInflight
    /\ filters' = [filters EXCEPT ![key] = value]
    /\ UNCHANGED activeTab
    /\ FetchStart("effect", filters')
    /\ timer' = SetInterval(EffectCleanup(timer,
                                           Interval(EffectClosure(filters))),
                             Interval(EffectClosure(filters')))
    /\ UNCHANGED <<response, snapshotFilters, now>>
    /\ UNCHANGED dashboardVars

\* the interval fires (every 5 minutes; the model lets it fire at any
\* moment): fetchEarthquakeData of the closure it was created in
Tick ==
    /\ timer # NoTimers
    /\ BagCardinality(inflight) < MaxInflight
    /\ UNCHANGED activeTab
    /\ \E interval \in BagToSet(timer) :
          FetchStart("interval", interval.filters)
    /\ UNCHANGED <<filters, timer, response, snapshotFilters, now>>
    /\ UNCHANGED dashboardVars

\* a catch block that only logs
SnapshotOnFailureKept(old) == old

\* the snapshot a failed fetch leaves
SnapshotOnFailure(old) == <<>>

\* fetchEarthquakeData from its awaits to its end
FetchDone(call, resp) ==
    /\ response' = resp
    /\ inflight' = Resume(inflight, call)
    /\ snapshotFilters' = call.filters
    /\ earthquakeData' =
          Render(IF resp.outcome = "ok" THEN FeaturesOrEmpty(resp.data)
                 ELSE SnapshotOnFailure(earthquakeData),
                 activeTab)
    /\ loading' = FALSE
    /\ markers' = MarkerEffect(markers, earthquakeData', FALSE, activeTab)
    /\ UNCHANGED <<activeTab, filters, timer, now>>
    /\ UNCHANGED dashboardVars

\* the try block runs to its end: setEarthquakeData(data.features || [])
FetchSuccess(call, resp) ==
    /\ BagIn(call, inflight)
    /\ resp.outcome = "ok"
    /\ FetchDone(call, resp)

\* a failure path without the finally block: the loading flag stays as
\* fetchEarthquakeData set it
FetchFailureNoFinally(call, resp) ==
    /\ BagIn(call, inflight)
    /\ resp.outcome # "ok"
    /\ response' = resp
    /\ inflight' = Resume(inflight, call)
    /\ snapshotFilters' = call.filters
    /\ earthquakeData' = Render(SnapshotOnFailure(earthquakeData), activeTab)
    /\ markers' = MarkerEffect(markers, earthquakeData', loading, activeTab)
    /\ UNCHANGED <<loading, activeTab, filters, timer, now>>
    /\ UNCHANGED dashboardVars

\* an await throws or the status is not ok: the catch block
FetchFailure(call, resp) ==
    /\ BagIn(call, inflight)
    /\ resp.outcome # "ok"
    /\ FetchDone(call, resp)

\* setActiveTab(tab) from a nav link: the old tab's component unmounts and
\* loses its state, the new one mounts and renders.  The setters of an
\* unmounted Dashboard change nothing, so its suspended handleEventClick
\* calls leave the model here.  React runs the effects of the first render
\* before it handles an event, so no click comes before the mount effect.
SetActiveTab(tab) ==
    /\ timer # NoTimers
    /\ tab # activeTab
    /\ activeTab' = tab
    /\ earthquakeData' = Render(earthquakeData, tab)
    /\ markers' = MarkerEffect(<<>>, earthquakeData', loading, tab)
    /\ selectedEvent' = Null
    /\ eventDetails' = Null
    /\ loadingDetails' = FALSE
    /\ detailInflight' = NoCalls
    /\ detailResponse' = Null
    /\ UNCHANGED <<loading, filters, timer, inflight, response,
                   snapshotFilters, now>>

\* the feature the detail endpoint returns for an event id
DetailFeature(eventId) ==
    [id |-> eventId, properties |-> [alert |-> Null]]

\* What the await of handleEventClick can deliver: a body whose features
\* hold the event, a body with an empty features list (features[0] is
\* undefined, kept as Null), or a throw (transport error, a body that is
\* not JSON, a body without features).
DetailResponses(eventId) ==
    {[outcome |-> "ok", features |-> <<DetailFeature(eventId)>>],
     [outcome |-> "ok", features |-> <<>>],
     [outcome |-> "throw", features |-> <<>>]}

\* the events the Dashboard lists, clickable when the list is shown
Clickable ==
    IF activeTab = "dashboard" /\ ~loading
    THEN Range(recentEarthquakes(earthquakeData))
    ELSE {}

\* handleEventClick on the selected event: deselect and return
DeselectEvent(earthquake) ==
    /\ earthquake \in Clickable
    /\ selectedEvent = Some(earthquake.id)
    /\ selectedEvent' = Null
    /\ eventDetails' = Null
    /\ earthquakeData' = Render(earthquakeData, activeTab)
    /\ UNCHANGED <<loadingDetails, detailInflight, detailResponse>>
    /\ UNCHANGED <<activeTab, loading, filters, timer, inflight, response,
                   snapshotFilters, now, markers>>

\* handleEventClick on another event, up to the await
SelectEvent(earthquake) ==
    /\ earthquake \in Clickable
    /\ selectedEvent # Some(earthquake.id)
    /\ BagCardinality(detailInflight) < MaxDetailInflight
    /\ selectedEvent' = Some(earthquake.id)
    /\ loadingDetails' = TRUE
    /\ detailInflight' = Suspend(detailInflight,
                                 [eventId |-> earthquake.id])
    /\ earthquakeData' = Render(earthquakeData, activeTab)
    /\ UNCHANGED <<eventDetails, detailResponse>>
    /\ UNCHANGED <<activeTab, loading, filters, timer, inflight, response,
                   snapshotFilters, now, markers>>

\* the snapshot after a detail fetch has ended and the Dashboard re-rendered
SnapshotAfterDetail(data, tab) == Render(data, tab)

\* a catch block that only logs and leaves the earlier details in place
DetailsOnDoneStale(resp, old) ==
    IF resp.outcome = "ok"
    THEN IF resp.features # <<>> THEN resp.features[1] ELSE Null
    ELSE old

\* eventDetails after the await: details.features[0] (undefined, kept as
\* Null, when the list is empty), null when the await threw
DetailsOnDone(resp, old) ==
    IF resp.outcome = "ok" /\ resp.features # <<>>
    THEN resp.features[1] ELSE Null

\* handleEventClick from the await to its end
DetailDone(call, resp) ==
    /\ detailResponse' = resp
    /\ detailInflight' = Resume(detailInflight, call)
    /\ eventDetails' = DetailsOnDone(resp, eventDetails)
    /\ loadingDetails' = FALSE
    /\ earthquakeData' = SnapshotAfterDetail(earthquakeData, activeTab)
    /\ UNCHANGED selectedEvent
    /\ UNCHANGED <<activeTab, loading, filters, timer, inflight, response,
                   snapshotFilters, now, markers>>

\* the try block runs to its end: setEventDetails(details.features[0])
DetailSuccess(call, resp) ==
    /\ BagIn(call, detailInflight)
    /\ resp \in DetailResponses(call.eventId)
    /\ resp.outcome = "ok"
    /\ DetailDone(call, resp)

\* the await throws: the catch block
DetailFailure(call, resp) ==
    /\ BagIn(call, detailInflight)
    /\ resp \in DetailResponses(call.eventId)
    /\ resp.outcome = "throw"
    /\ DetailDone(call, resp)

Next ==
    \/ MountEffect
    \/ \E key \in DOMAIN FilterChoices :
          \E value \in FilterChoices[key] : UpdateFilter(key, value)
    \/ Tick
    \/ \E call \in BagToSet(inflight) :
          \E resp \in Responses : FetchSuccess(call, resp)
    \/ \E call \in BagToSet(inflight) :
          \E resp \in Responses : FetchFailure(call, resp)
    \/ \E tab \in Tabs : SetActiveTab(tab)
    \/ \E earthquake \in Features : DeselectEvent(earthquake)
    \/ \E earthquake \in Features : SelectEvent(earthquake)
    \/ \E call \in BagToSet(detailInflight) :
          \E resp \in DetailResponses(call.eventId) :
             DetailSuccess(call, resp)
    \/ \E call \in BagToSet(detailInflight) :
          \E resp \in DetailResponses(call.eventId) :
             DetailFailure(call, resp)

Spec == Init /\ [][Next]_vars

\* a suspended call of fetchEarthquakeData resumes and runs to its end
FetchCompletes ==
    \E call \in BagToSet(inflight) :
       \E resp \in Responses :
          FetchSuccess(call, resp) \/ FetchFailure(call, resp)

\* the steps of App: the effect, the filter controls, the interval, the
\* fetches and the tabs
NextController ==
    \/ MountEffect
    \/ \E key \in DOMAIN FilterChoices :
          \E value \in FilterChoices[key] : UpdateFilter(key, value)
    \/ Tick
    \/ \E call \in BagToSet(inflight) :
          \E resp \in Responses : FetchSuccess(call, resp)
    \/ \E call \in BagToSet(inflight) :
          \E resp \in Responses : FetchFailure(call, resp)
    \/ \E tab \in Tabs : SetActiveTab(tab)

\* The running application where React runs the mount effect and where a
\* fetch that is in flight does not stay in flight forever.
SpecFair ==
    Init /\ [][NextController]_vars
         /\ WF_vars(MountEffect) /\ WF_vars(FetchCompletes)

\* The page unmounts App: React calls the cleanup of the effect, and the
\* state of App and of the tabs is gone with their components.  The setters
\* of an unmounted component change nothing, so the suspended calls leave
\* the model here.  A page that renders App again starts from Init.
Teardown ==
    /\ timer # NoTimers
    /\ timer' = EffectCleanup(timer, Interval(EffectClosure(filters)))
    /\ activeTab' = "dashboard"
    /\ earthquakeData' = <<>>
    /\ loading' = TRUE
    /\ filters' = InitialFilters
    /\ inflight' = NoCalls
    /\ response' = Null
    /\ snapshotFilters' = Null
    /\ markers' = <<>>
    /\ selectedEvent' = Null
    /\ eventDetails' = Null
    /\ loadingDetails' = FALSE
    /\ detailInflight' = NoCalls
    /\ detailResponse' = Null
    /\ UNCHANGED now

NextTimers ==
    \/ NextController
    \/ Teardown

\* App from its mount to its unmount, and mounted again
SpecTimers == Init /\ [][NextTimers]_vars

\* ------------------------------------------- the query builder on its own
\* the numeric filter fields the inputs vary
QueryKeys == {"minMagnitude", "maxMagnitude", "limit", "minDepth", "radius"}

\* every way to leave each numeric field out or set it to 0 or to 5
NumericOptions == UNION {[D -> {0, 5}] : D \in SUBSET QueryKeys}

\* the four values of the selector and one that is none of them
TimeRangeInputs == {"hour", "day", "week", "month", "year"}

\* the filterOptions objects buildUSGSQuery is applied to
QueryInputs ==
    NumericOptions \cup
    {[k \in DOMAIN o \cup {"timeRange"} |->
         IF k = "timeRange" THEN tr ELSE o[k]] :
     o \in NumericOptions, tr \in TimeRangeInputs}

\* the instants buildUSGSQuery is applied at
QueryNows == {Now0, Now0 + 3 * Hour + 25 * 60 + 7}

InitQuery ==
    /\ filters \in QueryInputs
    /\ now \in QueryNows
    /\ activeTab = "dashboard"
    /\ earthquakeData = <<>>
    /\ loading = TRUE
    /\ timer = NoTimers
    /\ inflight = NoCalls
    /\ response = Null
    /\ snapshotFilters = Null
    /\ markers = <<>>
    /\ selectedEvent = Null
    /\ eventDetails = Null
    /\ loadingDetails = FALSE
    /\ detailInflight = NoCalls
    /\ detailResponse = Null

NextQuery == MountEffect

\* buildUSGSQuery applied, through the first fetch, to every input
SpecQuery == InitQuery /\ [][NextQuery]_vars

\* ------------------------------------------------ the derived views' feed
\* events on the edges of the magnitude bands, the depth bands, the
\* histogram domain and the 24-hour window; v1 and v6 fall in the same hour
ViewFeatures ==
    {Feature("v1", Null, Now0 - 30 * 60, 20, 10, Some(10)),
     Feature("v2", Some(39), Now0 - Day, 21, 11, Some(70)),
     Feature("v3", Some(40), Now0 - Day + 1, 22, 12, Some(299)),
     Feature("v4", Some(50), Now0 - 25 * Hour, 23, 13, Some(300)),
     Feature("v5", Some(60), Now0 - 90 * 60, 24, 14, Null),
     Feature("v6", Some(70), Now0 - 30 * 60 - 10, 25, 15, Some(-1)),
     Feature("v7", Some(100), Now0 + 60, 26, 16, Some(0)),
     Feature("v8", Some(105), Now0 - 3 * Hour, 27, 17, Some(35)),
     Feature("v9", Some(-5), Now0 - 47 * Hour, 28, 18, Some(69))}

\* the short feature lists: up to MaxViewEvents of the events above
ShortLists ==
    {s \in SeqsUpTo(ViewFeatures, MaxViewEvents) : NoDup(s)}

\* ids of the events of the long lists
HourIds ==
    <<"h01", "h02", "h03", "h04", "h05", "h06", "h07", "h08", "h09", "h10",
      "h11", "h12", "h13", "h14", "h15", "h16", "h17", "h18", "h19", "h20",
      "h21", "h22", "h23", "h24", "h25", "h26", "h27", "h28", "h29", "h30">>

\* the i-th event of a long list, hoursAgo hours and a half before page
\* load; every third one has no magnitude
HourEvent(i, hoursAgo) ==
    Feature(HourIds[i], IF i % 3 = 0 THEN Null ELSE Some(20 + i),
            Now0 - hoursAgo * Hour - 30 * 60, 30 + i, 20 + i, Some(5 * i))

\* how the events of a long list of n events are spread over the hours
HourPatterns(n) ==
    [ascending |-> [i \in 1..n |-> i - 1],
     descending |-> [i \in 1..n |-> n - i],
     pairs |-> [i \in 1..n |-> (i - 1) \div 2],
     gaps |-> [i \in 1..n |-> (7 * i) % 30]]

\* the long feature lists (a week of data): up to MaxTimelineEvents events
LongLists ==
    {[i \in 1..n |-> HourEvent(i, HourPatterns(n)[p][i])] :
        n \in 1..MaxTimelineEvents, p \in DOMAIN HourPatterns(1)}

\* the list of depths 10, 70, 299, 300 and null
DepthScenario ==
    <<Feature("v1", Null, Now0 - 30 * 60, 20, 10, Some(10)),
      Feature("v2", Some(39), Now0 - Day, 21, 11, Some(70)),
      Feature("v3", Some(40), Now0 - Day + 1, 22, 12, Some(299)),
      Feature("v4", Some(50), Now0 - 25 * Hour, 23, 13, Some(300)),
      Feature("v5", Some(60), Now0 - 90 * 60, 24, 14, Null)>>

ViewLists == ShortLists \cup LongLists \cup {DepthScenario}

\* the successful responses that carry these lists
ViewResponses ==
    {[outcome |-> "ok",
      data |-> [type |-> "FeatureCollection", features |-> fs]] :
     fs \in ViewLists}

NextViews ==
    \/ MountEffect
    \/ \E call \in BagToSet(inflight) : \E resp \in ViewResponses :
          FetchSuccess(call, resp)
    \/ \E tab \in Tabs : SetActiveTab(tab)

\* the first fetch delivers one of the lists above and the tabs are shown
SpecViews == Init /\ [][NextViews]_vars

\* ================================================================= claims

\* C1: once every snapshot fetch in flight has completed, the snapshot is
\* the result of the fetch issued for the latest filter configuration; a
\* stale result never has the last word.
C1_LatestConfigWins ==
    (timer # NoTimers /\ inflight = NoCalls) => snapshotFilters = filters

\* C2: computing the recent-events list leaves the order of the shared
\* earthquakeData array as it was, and computing it again gives the same
\* list; stated for the step that shows the Dashboard.
C2_RecentEventsKeepsSnapshot ==
    [][(activeTab # "dashboard" /\ activeTab' = "dashboard")
         => /\ earthquakeData' = earthquakeData
            /\ recentEarthquakes(earthquakeData')
                  = recentEarthquakes(earthquakeData)]_vars

\* C3: for a non-empty snapshot whose events all have a null magnitude,
\* getStats gives largest 0 and averageMagnitude 0, and total is the size
\* of the snapshot.
C3_AllNullStatsAreZero ==
    (/\ activeTab = "dashboard"
     /\ earthquakeData # <<>>
     /\ \A i \in 1..Len(earthquakeData) :
           earthquakeData[i].properties.mag = Null)
    => LET stats == getStats(earthquakeData, now)
       IN  /\ stats.total = Len(earthquakeData)
           /\ stats.largest = Num(0)
           /\ stats.averageMagnitude = Num(0)

\* C4: a query built from a configuration whose minMagnitude (maxMagnitude)
\* is 0 carries minmagnitude=0 (maxmagnitude=0).
C4_ZeroBoundIsSent ==
    \A r \in BagToSet(inflight) :
           /\ (Has(r.filters, "minMagnitude") /\ r.filters.minMagnitude = 0)
                => (Has(r.query, "minmagnitude") /\ r.query.minmagnitude = 0)
           /\ (Has(r.filters, "maxMagnitude") /\ r.filters.maxMagnitude = 0)
                => (Has(r.query, "maxmagnitude") /\ r.query.maxmagnitude = 0)

\* C5: total counts every event of the snapshot, and on the map every event
\* with a latitude and a longitude has a marker, null magnitude or not.
C5_NullMagnitudeStillShown ==
    /\ getStats(earthquakeData, now).total = Len(earthquakeData)
    /\ (activeTab = "map" /\ ~loading)
         => \A i \in 1..Len(earthquakeData) :
               \E m \in 1..Len(markers) :
                  markers[m].latlng =
                     <<earthquakeData[i].geometry.coordinates[2],
                       earthquakeData[i].geometry.coordinates[1]>>

\* C6: a snapshot fetch that fails leaves the empty snapshot, whatever was
\* there before, and clears the loading flag.
C6_FailureEmptiesSnapshot ==
    [][(/\ inflight' # inflight
        /\ \E call \in BagToSet(inflight) : \E resp \in Responses :
              FetchFailure(call, resp))
         => (earthquakeData' = <<>> /\ loading' = FALSE)]_vars

\* a fetch has failed and left the empty snapshot with loading cleared
C6_Witness ==
    /\ response # Null
    /\ response.outcome # "ok"
    /\ earthquakeData = <<>>
    /\ ~loading

\* C7: a snapshot fetch that succeeds leaves exactly the events of its
\* response, in response order (none when there is no features field).
C7_SuccessReplacesInOrder ==
    [][\A call \in BagToSet(inflight) : \A resp \in Responses :
          FetchSuccess(call, resp)
             => earthquakeData' = FeaturesOrEmpty(resp.data)]_vars

\* C8: a detail fetch that fails leaves eventDetails null and
\* loadingDetails false, and changes neither the snapshot, the loading flag
\* nor the filter configuration.
C8_DetailFailureIsIsolated ==
    [][\A call \in BagToSet(detailInflight) :
          \A resp \in DetailResponses(call.eventId) :
             DetailFailure(call, resp)
                => /\ eventDetails' = Null
                   /\ loadingDetails' = FALSE
                   /\ earthquakeData' = earthquakeData
                   /\ loading' = loading
                   /\ filters' = filters]_vars

\* a detail fetch has failed while the snapshot holds events
C8_Witness ==
    /\ detailResponse # Null
    /\ detailResponse.outcome = "throw"
    /\ eventDetails = Null
    /\ ~loadingDetails
    /\ earthquakeData # <<>>

\* C9: the fetch a timer tick issues is built from the filter configuration
\* in effect at the tick, never from an earlier one.
C9_TickUsesCurrentFilters ==
    [][Tick
         => \E issued \in BagToSet(inflight') :
               /\ inflight' = Suspend(inflight, issued)
               /\ issued.filters = filters
               /\ issued.query = buildUSGSQuery(filters, now)]_vars

\* a tick has issued a fetch after the configuration was changed
C9_Witness ==
    \E call \in BagToSet(inflight) :
       /\ call.by = "interval"
       /\ call.filters # InitialFilters
       /\ filters # InitialFilters

\* C10: the built query's endtime is now and its starttime is now minus
\* 1 hour for 'hour', 24 hours for 'day', 7 days for 'week', 30 days for
\* 'month', and 24 hours for any other timeRange.
C10_TimeWindow ==
    \A r \in BagToSet(inflight) :
       LET duration ==
              IF ~Has(r.filters, "timeRange") THEN Day
              ELSE CASE r.filters.timeRange = "hour" -> Hour
                     [] r.filters.timeRange = "day" -> Day
                     [] r.filters.timeRange = "week" -> 7 * Day
                     [] r.filters.timeRange = "month" -> 30 * Day
                     [] OTHER -> Day
       IN  /\ r.query.endtime = toISOString(now)
           /\ r.query.starttime = toISOString(now - duration)

\* a query has been built for a timeRange that is none of the four
C10_Witness ==
    \E call \in BagToSet(inflight) :
       /\ Has(call.filters, "timeRange")
       /\ call.filters.timeRange = "year"
       /\ Has(call.query, "starttime")

\* the magnitudes of data that are not null, by the index of the event
MagnitudeAt(data) ==
    [i \in {j \in 1..Len(data) : data[j].properties.mag # Null} |->
        Val(data[i].properties.mag)]

\* C12: for a non-empty snapshot every event with a non-null magnitude is
\* counted in exactly one band of getMagnitudeStats: minor below 4, light
\* from 4 up to 5, moderate from 5 up to 6, strong from 6 up to 7, major
\* from 7 on, so that 4, 5, 6 and 7 count in the higher band and the five
\* counts sum to the number of events with a magnitude.
C12_MagnitudeBandsPartition ==
    (activeTab = "statistics" /\ earthquakeData # <<>>)
    => LET magnitudeStats == getMagnitudeStats(earthquakeData)
           m == MagnitudeAt(earthquakeData)
       IN  /\ DOMAIN magnitudeStats
                 = {"minor", "light", "moderate", "strong", "major"}
           /\ magnitudeStats.minor
                 = Cardinality({i \in DOMAIN m : m[i] < 40})
           /\ magnitudeStats.light
                 = Cardinality({i \in DOMAIN m : 40 <= m[i] /\ m[i] < 50})
           /\ magnitudeStats.moderate
                 = Cardinality({i \in DOMAIN m : 50 <= m[i] /\ m[i] < 60})
           /\ magnitudeStats.strong
                 = Cardinality({i \in DOMAIN m : 60 <= m[i] /\ m[i] < 70})
           /\ magnitudeStats.major
                 = Cardinality({i \in DOMAIN m : 70 <= m[i]})
           /\ magnitudeStats.minor + magnitudeStats.light
                 + magnitudeStats.moderate + magnitudeStats.strong
                 + magnitudeStats.major
                 = Cardinality(DOMAIN m)

\* the Statistics tab shows a snapshot with magnitudes 4.0, 7.0 and null
C12_Witness ==
    /\ activeTab = "statistics"
    /\ \E i, j \in DOMAIN MagnitudeAt(earthquakeData) :
          /\ MagnitudeAt(earthquakeData)[i] = 40
          /\ MagnitudeAt(earthquakeData)[j] = 70
    /\ \E i \in 1..Len(earthquakeData) :
          earthquakeData[i].properties.mag = Null
    /\ getMagnitudeStats(earthquakeData).light = 1
    /\ getMagnitudeStats(earthquakeData).major = 1

\* the depths of data that are not null, by the index of the event
DepthAt(data) ==
    [i \in {j \in 1..Len(data) : data[j].geometry.coordinates[3] # Null} |->
        Val(data[i].geometry.coordinates[3])]

\* C13: the depth counts ignore null depth; shallow counts the events with
\* 0 <= depth < 70, intermediate those with 70 <= depth < 300, deep those
\* with depth >= 300, and depths 10, 70, 299, 300, null give 1, 2, 1.
C13_DepthBandsFromZero ==
    activeTab = "statistics"
    => LET depthStats == getDepthDistribution(earthquakeData)
           d == DepthAt(earthquakeData)
       IN  /\ OrZero(depthStats, "shallow")
                 = Cardinality({i \in DOMAIN d : 0 <= d[i] /\ d[i] < 70})
           /\ OrZero(depthStats, "intermediate")
                 = Cardinality({i \in DOMAIN d : 70 <= d[i] /\ d[i] < 300})
           /\ OrZero(depthStats, "deep")
                 = Cardinality({i \in DOMAIN d : 300 <= d[i]})
           /\ earthquakeData = DepthScenario
                 => depthStats = [shallow |-> 1, intermediate |-> 2,
                                  deep |-> 1]

\* C13 as amended: the same, with shallow counting every event whose depth
\* is below 70, a depth below 0 included.
C13_DepthBands ==
    activeTab = "statistics"
    => LET depthStats == getDepthDistribution(earthquakeData)
           d == DepthAt(earthquakeData)
       IN  /\ OrZero(depthStats, "shallow")
                 = Cardinality({i \in DOMAIN d : d[i] < 70})
           /\ OrZero(depthStats, "intermediate")
                 = Cardinality({i \in DOMAIN d : 70 <= d[i] /\ d[i] < 300})
           /\ OrZero(depthStats, "deep")
                 = Cardinality({i \in DOMAIN d : 300 <= d[i]})
           /\ OrZero(depthStats, "shallow")
                 + OrZero(depthStats, "intermediate")
                 + OrZero(depthStats, "deep")
                 = Cardinality(DOMAIN d)
           /\ earthquakeData = DepthScenario
                 => depthStats = [shallow |-> 1, intermediate |-> 2,
                                  deep |-> 1]

\* the Statistics tab shows a snapshot with a depth below 0, a depth of 70
\* and a null depth
C13_Witness ==
    /\ activeTab = "statistics"
    /\ \E i, j \in DOMAIN DepthAt(earthquakeData) :
          /\ DepthAt(earthquakeData)[i] < 0
          /\ DepthAt(earthquakeData)[j] = 70
    /\ \E i \in 1..Len(earthquakeData) :
          earthquakeData[i].geometry.coordinates[3] = Null
    /\ getDepthDistribution(earthquakeData)
          = [shallow |-> 1, intermediate |-> 1, deep |-> 0]

\* C14: the magnitude histogram has 20 bins of equal width over [0, 10];
\* bin b counts the magnitudes in [x0, x1), the last one also magnitude 10;
\* the counts sum to the number of events with a non-null magnitude in
\* [0, 10], and no bin holds a null or out-of-range magnitude.
C14_HistogramBins ==
    ChartDrawn(earthquakeData, loading, activeTab)
    => LET bins == MagnitudeBins(earthquakeData)
           m == MagnitudeAt(earthquakeData)
       IN  /\ Len(bins) = 20
           /\ \A b \in 1..Len(bins) :
                 /\ bins[b].x0 = 5 * (b - 1)
                 /\ bins[b].x1 = 5 * b
                 /\ Len(bins[b].values)
                       = Cardinality({i \in DOMAIN m :
                            /\ 5 * (b - 1) <= m[i]
                            /\ m[i] < 5 * b \/ (b = 20 /\ m[i] = 100)})
                 /\ \A v \in 1..Len(bins[b].values) :
                       0 <= bins[b].values[v] /\ bins[b].values[v] <= 100
           /\ SumSeq([b \in 1..Len(bins) |-> Len(bins[b].values)])
                 = Cardinality({i \in DOMAIN m : 0 <= m[i] /\ m[i] <= 100})

\* the histogram is drawn for a snapshot with magnitude 10, a magnitude
\* outside [0, 10] and a null magnitude
C14_Witness ==
    /\ ChartDrawn(earthquakeData, loading, activeTab)
    /\ \E i, j \in DOMAIN MagnitudeAt(earthquakeData) :
          /\ MagnitudeAt(earthquakeData)[i] = 100
          /\ MagnitudeAt(earthquakeData)[j] < 0
                \/ MagnitudeAt(earthquakeData)[j] > 100
    /\ \E i \in 1..Len(earthquakeData) :
          earthquakeData[i].properties.mag = Null
    /\ MagnitudeBins(earthquakeData)[20].values = <<100>>

\* the whole hours between the time of an event and t: the h with
\* h hours <= t - time < h + 1 hours
WholeHoursBefore(t, eq) ==
    CHOOSE h \in -MaxTimelineEvents - 48..MaxTimelineEvents + 48 :
       h * Hour <= t - eq.properties.time
          /\ t - eq.properties.time < (h + 1) * Hour

\* the hours in which data has events
HoursPresent(data, t) == {WholeHoursBefore(t, data[i]) : i \in 1..Len(data)}

C16_EmptyStatsAndLast24Hours ==
    activeTab = "dashboard"
    => LET stats == getStats(earthquakeData, now)
       IN  /\ earthquakeData = <<>>
                 => stats = [total |-> 0, largest |-> Num(0),
                             averageMagnitude |-> Num(0), last24Hours |-> 0]
           /\ stats.last24Hours
                 = Cardinality({i \in 1..Len(earthquakeData) :
                       now - earthquakeData[i].properties.time < Day})

\* the Dashboard shows a snapshot with an event exactly 24 hours old, one a
\* second younger and one without magnitude
C16_Witness ==
    /\ activeTab = "dashboard"
    /\ ~loading
    /\ \E i, j, k \in 1..Len(earthquakeData) :
          /\ now - earthquakeData[i].properties.time = Day
          /\ now - earthquakeData[j].properties.time = Day - 1
          /\ earthquakeData[k].properties.mag = Null
          /\ now - earthquakeData[k].properties.time < Day
    /\ getStats(earthquakeData, now).last24Hours = 2

\* C17: when every fetch that was issued completes, with success or with
\* failure, the loading flag does not stay set: from every state with
\* loading true a state with loading false is reached.
C17_LoadingEnds == loading ~> ~loading

\* after a configuration change and a failed fetch nothing is in flight and
\* the loading flag is clear
C17_Witness ==
    /\ ~loading
    /\ inflight = NoCalls
    /\ filters # InitialFilters
    /\ response # Null
    /\ response.outcome # "ok"

\* C18: the application starts with the empty snapshot, loading set and
\* nothing in flight, and its first step is the fetch of the mount effect;
\* from then on every filter change and every timer tick adds exactly one
\* fetch to those in flight, also when fetches are already in flight, and
\* no other step adds any: fetches issued = 1 + changes + ticks.
C18_EveryTriggerIssuesOneFetch ==
    /\ earthquakeData = <<>>
    /\ loading = TRUE
    /\ inflight = NoCalls
    /\ [][LET trigger ==
                 \/ MountEffect
                 \/ Tick
                 \/ \E key \in DOMAIN FilterChoices :
                       \E value \in FilterChoices[key] :
                          UpdateFilter(key, value)
          IN  /\ timer = NoTimers => MountEffect
              /\ trigger
                   => /\ \E issued \in BagToSet(inflight') :
                            inflight' = Suspend(inflight, issued)
                      /\ loading'
              /\ ~trigger
                   => \A call \in BagToSet(inflight') :
                         CopiesIn(call, inflight')
                            <= CopiesIn(call, inflight)]_vars

\* the fetch of a filter change and the fetch of a timer tick are in flight
\* together
C18_Witness ==
    /\ BagCardinality(inflight) = 2
    /\ \E call \in BagToSet(inflight) :
          call.by = "effect" /\ call.filters # InitialFilters
    /\ \E call \in BagToSet(inflight) : call.by = "interval"

\* C19: the loading flag reflects the work in flight: whenever loading is
\* false no snapshot fetch is in flight, also when a filter change or a
\* timer tick started a second fetch before the first one completed.
C19_LoadingReflectsInflight ==
    loading = FALSE => inflight = NoCalls

\* C20: the detail panel agrees with the selection: whenever eventDetails is
\* not null, an event is selected and eventDetails is the response of the
\* detail fetch issued for that event, whatever the order of clicks,
\* deselecting clicks and detail-fetch completions.
C20_DetailsMatchSelection ==
    eventDetails # Null
    => /\ selectedEvent # Null
       /\ eventDetails.id = Val(selectedEvent)


\* C21: at most one interval is set at any time: a filter change clears the
\* interval of the previous configuration as it sets the new one, and the
\* unmount clears the interval, so that the only interval that can tick is
\* the one set for the current configuration, and none after the unmount.
C21_OneTimer ==
    [][/\ BagCardinality(timer') <= 1
       /\ \A interval \in BagToSet(timer') : interval.filters = filters'
       /\ Teardown => timer' = NoTimers
       /\ Tick => \E interval \in BagToSet(timer) :
                     /\ interval.filters = filters
                     /\ \E issued \in BagToSet(inflight') :
                           /\ inflight' = Suspend(inflight, issued)
                           /\ issued.filters = interval.filters]_vars

\* after a filter change one interval is set, that of the new
\* configuration, and its tick has issued the only fetch in flight
C21_Witness ==
    /\ filters # InitialFilters
    /\ timer = SetToBag({Interval(filters)})
    /\ \A call \in BagToSet(inflight) :
          call.by = "interval" /\ call.filters = filters
    /\ inflight # NoCalls

====
